---------------------------- MODULE Spec2Model ----------------------------
(***************************************************************************)
(* A model of profiling.remote: the length-prefixed frame codec            *)
(* (pack_stats / recv / recv_stats) and BaseProfilingServer (connected,    *)
(* disconnected and the profiling() round loop).                           *)
(*                                                                         *)
(* Three specifications share the variables:                               *)
(*   Spec       the server under a preemptive backend: every statement     *)
(*              that touches shared state is a step of its own;            *)
(*   SpecSeq    the server under a single-threaded backend: a handler,     *)
(*              and a loop segment between two yields, runs to its end     *)
(*              before anything else runs;                                 *)
(*   SpecCodec  the codec applied to a bounded set of snapshots.           *)
(***************************************************************************)
EXTENDS Integers, Sequences, FiniteSets, TLC

\* ------------------------------------------------------------- bounds --
NumClients == 2
MaxCalls == 2
MaxCallsPreemptive == 1
MaxRounds == 2
MaxStat == 300

\* ---------------------------------------------------------- constants --
PICKLE_PROTOCOL == 2
SIZE_STRUCT_BYTES == 4

Clients == 1..NumClients
Loops == 1..(NumClients * MaxCalls)
Snapshots == 0..MaxStat
Protocols == 0..2
None == << >>
SendOutcomes == {"ok", "EPIPE", "EBADF", "OTHER"}

VARIABLES
    preemptive,      \* TRUE: statements of different tasks interleave
    clients,         \* self.clients
    latest,          \* self._latest_data (None or a frame)
    profiler,        \* operations called on self.profiler in the current cycle
    rounds,          \* number of results the profiler has produced
    cpc, cerr, cres, nconn,        \* connected(c): position, catch-up errno, outcome, calls
    dpc, dres, ndisc,              \* disconnected(c) called by the adapter
    lpc, data, iter, res, closed_clients,   \* profiling() generators
    starts,          \* number of _start_profiling() calls
    closes,          \* closes[c]: number of _close(c) calls
    nlog,            \* number of 'disconnected' log events
    first, connAt,   \* first frame delivered to c; _latest_data when c joined
    seen, twice,     \* frames delivered to c; clients sent one frame twice
    propagated,      \* an exception has left connected()
    snapshot, protocol, frame, wire, sock, rpc, size, result   \* codec run

serverVars == <<preemptive, clients, latest, profiler, rounds, cpc, cerr, cres,
                nconn, dpc, dres, ndisc, lpc, data, iter, res, closed_clients,
                starts, closes, nlog, first, connAt, seen, twice, propagated>>
codecVars == <<snapshot, protocol, frame, wire, sock, rpc, size, result>>
vars == <<serverVars, codecVars>>

\* ============================================================== codec ==
Last(s) == s[Len(s)]

RECURSIVE Digits(_)
Digits(n) == IF n < 10 THEN <<48 + n>> ELSE Digits(n \div 10) \o <<48 + (n % 10)>>

\* pickle.dump of a small non-negative integer.
BinInt(x) == IF x < 256 THEN <<75, x>> ELSE <<77, x % 256, (x \div 256) % 256>>

pickle_dump(stats, p) ==
    IF p = 0 THEN <<73>> \o Digits(stats) \o <<10, 46>>
    ELSE IF p = 1 THEN BinInt(stats) \o <<46>>
    ELSE <<128, p>> \o BinInt(stats) \o <<46>>

Bad == [ok |-> FALSE, value |-> 0]
Good(v) == [ok |-> TRUE, value |-> v]

RECURSIVE ReadDecimal(_, _, _)
ReadDecimal(d, i, acc) ==
    IF i > Len(d) THEN Bad
    ELSE IF d[i] = 10
         THEN IF i > 2 /\ i < Len(d) /\ d[i + 1] = 46 THEN Good(acc) ELSE Bad
    ELSE IF d[i] >= 48 /\ d[i] <= 57 THEN ReadDecimal(d, i + 1, acc * 10 + (d[i] - 48))
    ELSE Bad

pickle_loads(bytes) ==
    LET d == IF Len(bytes) >= 2 /\ bytes[1] = 128
             THEN SubSeq(bytes, 3, Len(bytes)) ELSE bytes
    IN  IF Len(d) = 0 THEN Bad
        ELSE IF d[1] = 73 THEN ReadDecimal(d, 2, 0)
        ELSE IF d[1] = 75
             THEN IF Len(d) >= 3 /\ d[3] = 46 THEN Good(d[2]) ELSE Bad
        ELSE IF d[1] = 77
             THEN IF Len(d) >= 4 /\ d[4] = 46 THEN Good(d[2] + 256 * d[3]) ELSE Bad
        ELSE Bad

\* struct.pack('!I', n) and struct.unpack('!I', b)
struct_pack_le(n) ==
    <<n % 256, (n \div 256) % 256, (n \div 65536) % 256, (n \div 16777216) % 256>>
struct_pack(n) ==
    <<(n \div 16777216) % 256, (n \div 65536) % 256, (n \div 256) % 256, n % 256>>
struct_unpack(b) == b[1] * 16777216 + b[2] * 65536 + b[3] * 256 + b[4]

pack_stats(stats, pickle_protocol) ==
    LET dump == pickle_dump(stats, pickle_protocol)
        sz == Len(dump)
    IN  struct_pack(sz) \o dump

\* recv(sock, size): the bytes obtained and whether they are all of them.
recv_nonempty(s, n) ==
    LET got == SubSeq(s, 1, IF Len(s) < n THEN Len(s) ELSE n)
    IN  [ok |-> Len(got) > 0, data |-> got, rest |-> SubSeq(s, Len(got) + 1, Len(s))]
recv(s, n) ==
    LET got == SubSeq(s, 1, IF Len(s) < n THEN Len(s) ELSE n)
    IN  [ok |-> Len(got) >= n, data |-> got, rest |-> SubSeq(s, Len(got) + 1, Len(s))]

CodecIdle ==
    /\ snapshot = 0 /\ protocol = PICKLE_PROTOCOL /\ frame = None
    /\ wire = None /\ sock = None
    /\ rpc = "pack" /\ size = 0 /\ result = Bad

Pack ==
    /\ rpc = "pack"
    /\ frame' = pack_stats(snapshot, protocol)
    /\ rpc' = "wire"
    /\ UNCHANGED <<snapshot, protocol, wire, sock, size, result, serverVars>>

\* The peer writes the frame and closes; cut < Len(frame) is an early close.
Transmit ==
    /\ rpc = "wire"
    /\ \E cut \in 0..Len(frame) : /\ wire' = SubSeq(frame, 1, cut)
                                  /\ sock' = SubSeq(frame, 1, cut)
    /\ rpc' = "header"
    /\ UNCHANGED <<snapshot, protocol, frame, size, result, serverVars>>

RecvHeader ==
    /\ rpc = "header"
    /\ LET r == recv(sock, SIZE_STRUCT_BYTES)
       IN  IF r.ok /\ Len(r.data) # SIZE_STRUCT_BYTES
           THEN /\ rpc' = "struct_error"     \* struct.unpack on a short buffer
                /\ sock' = r.rest
                /\ size' = size
           ELSE IF r.ok
           THEN /\ size' = struct_unpack(r.data)
                /\ sock' = r.rest
                /\ rpc' = "payload"
           ELSE /\ rpc' = "closed"
                /\ sock' = r.rest
                /\ size' = size
    /\ UNCHANGED <<snapshot, protocol, frame, wire, result, serverVars>>

RecvPayload ==
    /\ rpc = "payload"
    /\ LET r == recv(sock, size)
       IN  IF r.ok
           THEN /\ result' = pickle_loads(r.data)
                /\ sock' = r.rest
                /\ rpc' = IF pickle_loads(r.data).ok THEN "done" ELSE "unpickle_error"
           ELSE /\ rpc' = "closed"
                /\ sock' = r.rest
                /\ result' = result
    /\ UNCHANGED <<snapshot, protocol, frame, wire, size, serverVars>>

\* ============================================================= server ==
\* Tasks that are in the middle of a handler or of a loop segment.
InFlight ==
    {<<"conn", c>> : c \in {x \in Clients : cpc[x] # "idle"}}
    \cup {<<"disc", c>> : c \in {x \in Clients : dpc[x] # "idle"}}
    \cup {<<"loop", l>> : l \in {x \in Loops : lpc[x] \in {"send", "reconcile", "remove", "check"}}}

\* Under the single-threaded backend a task runs only when no other task is
\* in the middle of its handler or segment.
Turn(t) == preemptive \/ InFlight \subseteq {t}

\* How often connected(c) and disconnected(c) are called for one handle.
CallLimit == IF preemptive THEN MaxCallsPreemptive ELSE MaxCalls

ActiveLoops == {l \in Loops : lpc[l] \notin {"off", "done", "crashed"}}
Waiting == {l \in Loops : lpc[l] = "wait"}
Min(S) == CHOOSE x \in S : \A y \in S : x <= y

\* `while self.clients:`
loop_continues_always == TRUE
loop_continues == clients # {}

\* `if len(self.clients) == 1:`
should_start_never == FALSE
should_start == Cardinality(clients) = 1

\* `if client not in self.clients: return`
already_disconnected_unchecked(c) == FALSE
already_disconnected(c) == c \notin clients

\* `if err.errno in (EBADF, EPIPE):` of the catch-up send
catchup_recoverable_epipe_only(err) == err = "EPIPE"
catchup_recoverable(err) == err \in {"EBADF", "EPIPE"}

\* `if err.errno == EPIPE: closed_clients.append(client)` of the broadcast
closed_after_forgetful(cc, c, err) == cc
closed_after(cc, c, err) == IF err = "EPIPE" THEN Append(cc, c) ELSE cc

\* `self._latest_data = data`
store_latest_skipped(d) == latest
store_latest(d) == d

\* self._send(client, data) that succeeded: the client's first delivery.
Delivered(c, f) == IF first[c] = None THEN [first EXCEPT ![c] = f] ELSE first
Deliver(c, f) ==
    /\ first' = Delivered(c, f)
    /\ seen' = [seen EXCEPT ![c] = @ \cup {f}]
    /\ twice' = IF f \in seen[c] THEN twice \cup {c} ELSE twice
NoDelivery == UNCHANGED <<first, seen, twice>>

\* self.clients.remove(client); self._log_disconnected(client); self._close(client)
Remove(c) ==
    /\ clients' = clients \ {c}
    /\ nlog' = nlog + 1
    /\ closes' = [closes EXCEPT ![c] = @ + 1]

\* self.profiler.start()
ProfilerStart ==
    profiler' = IF profiler = << >> \/ Last(profiler) = "clear"
                THEN <<"start">> ELSE Append(profiler, "start")

\* self.profiler.stop(); pack_stats -> self.profiler.result(); self.profiler.clear()
ProfilerStopIfClients ==
    profiler' = IF clients = {} THEN profiler
                ELSE profiler \o <<"stop", "result", "clear">>
ProfilerStop == profiler' = profiler \o <<"stop", "result", "clear">>

ServerInit ==
    /\ clients = {}
    /\ latest = None
    /\ profiler = << >>
    /\ rounds = 0
    /\ cpc = [c \in Clients |-> "idle"]
    /\ cerr = [c \in Clients |-> "none"]
    /\ cres = [c \in Clients |-> "none"]
    /\ nconn = [c \in Clients |-> 0]
    /\ dpc = [c \in Clients |-> "idle"]
    /\ dres = [c \in Clients |-> "none"]
    /\ ndisc = [c \in Clients |-> 0]
    /\ lpc = [l \in Loops |-> "off"]
    /\ data = [l \in Loops |-> None]
    /\ iter = [l \in Loops |-> {}]
    /\ res = [l \in Loops |-> [c \in Clients |-> "none"]]
    /\ closed_clients = [l \in Loops |-> << >>]
    /\ starts = 0
    /\ closes = [c \in Clients |-> 0]
    /\ nlog = 0
    /\ first = [c \in Clients |-> None]
    /\ seen = [c \in Clients |-> {}]
    /\ twice = {}
    /\ connAt = [c \in Clients |-> None]
    /\ propagated = FALSE

\* ------------------------------------------------------- connected(c) --
\* self.clients.add(client); self._log_connected; self._start_watching
ConnAdd(c) ==
    /\ cpc[c] = "idle" /\ nconn[c] < CallLimit /\ closes[c] = 0
    /\ Turn(<<"conn", c>>)
    /\ clients' = clients \cup {c}
    /\ nconn' = [nconn EXCEPT ![c] = @ + 1]
    /\ cpc' = [cpc EXCEPT ![c] = "catchup"]
    /\ cerr' = [cerr EXCEPT ![c] = "none"]
    /\ cres' = [cres EXCEPT ![c] = "none"]
    /\ connAt' = IF c \in clients THEN connAt ELSE [connAt EXCEPT ![c] = latest]
    /\ first' = IF c \in clients THEN first ELSE [first EXCEPT ![c] = None]
    /\ UNCHANGED <<seen, twice>>
    /\ UNCHANGED <<preemptive, latest, profiler, rounds, dpc, dres, ndisc, lpc, data,
                   iter, res, closed_clients, starts, closes, nlog, propagated, codecVars>>

\* if self._latest_data is not None: self._send(client, self._latest_data)
ConnCatchUp(c) ==
    /\ cpc[c] = "catchup"
    /\ Turn(<<"conn", c>>)
    /\ IF latest = None
       THEN /\ cpc' = [cpc EXCEPT ![c] = "check"]
            /\ UNCHANGED <<cerr, cres, first, seen, twice, propagated>>
       ELSE \E err \in SendOutcomes :
            /\ cerr' = [cerr EXCEPT ![c] = err]
            /\ IF err = "ok"
               THEN /\ Deliver(c, latest)
                    /\ cpc' = [cpc EXCEPT ![c] = "check"]
                    /\ UNCHANGED <<cres, propagated>>
               ELSE IF catchup_recoverable(err)
               THEN /\ cpc' = [cpc EXCEPT ![c] = "gone"]
                    /\ UNCHANGED <<cres, first, seen, twice, propagated>>
               ELSE /\ cpc' = [cpc EXCEPT ![c] = "idle"]
                    /\ cres' = [cres EXCEPT ![c] = "raised"]
                    /\ propagated' = TRUE
                    /\ NoDelivery
    /\ UNCHANGED <<preemptive, clients, latest, profiler, rounds, nconn, dpc, dres, ndisc,
                   lpc, data, iter, res, closed_clients, starts, closes, nlog, connAt,
                   codecVars>>

\* self.disconnected(client) of the except branch: the membership test
ConnGone(c) ==
    /\ cpc[c] = "gone"
    /\ Turn(<<"conn", c>>)
    /\ IF already_disconnected(c)
       THEN /\ cpc' = [cpc EXCEPT ![c] = "idle"]
            /\ cres' = [cres EXCEPT ![c] = "returned"]
       ELSE /\ cpc' = [cpc EXCEPT ![c] = "remove"]
            /\ cres' = cres
    /\ UNCHANGED <<preemptive, clients, latest, profiler, rounds, cerr, nconn, dpc, dres,
                   ndisc, lpc, data, iter, res, closed_clients, starts, closes, nlog,
                   first, seen, twice, connAt, propagated, codecVars>>

\* ... and its remove / log / _close, then `return`
ConnRemove(c) ==
    /\ cpc[c] = "remove"
    /\ Turn(<<"conn", c>>)
    /\ cpc' = [cpc EXCEPT ![c] = "idle"]
    /\ IF c \in clients
       THEN /\ Remove(c)
            /\ cres' = [cres EXCEPT ![c] = "returned"]
            /\ propagated' = propagated
       ELSE /\ cres' = [cres EXCEPT ![c] = "raised"]     \* KeyError
            /\ propagated' = TRUE
            /\ UNCHANGED <<clients, nlog, closes>>
    /\ UNCHANGED <<preemptive, latest, profiler, rounds, cerr, nconn, dpc, dres, ndisc,
                   lpc, data, iter, res, closed_clients, starts, first, seen, twice, connAt, codecVars>>

\* if len(self.clients) == 1: self._start_profiling()
ConnCheck(c) ==
    /\ cpc[c] = "check"
    /\ Turn(<<"conn", c>>)
    /\ cpc' = [cpc EXCEPT ![c] = "idle"]
    /\ IF should_start
       THEN /\ \E l \in Loops : /\ lpc[l] = "off"
                                /\ l = Min({x \in Loops : lpc[x] = "off"})
                                /\ lpc' = [lpc EXCEPT ![l] = "scheduled"]
            /\ starts' = starts + 1
            /\ cres' = [cres EXCEPT ![c] = "started"]
       ELSE /\ cres' = [cres EXCEPT ![c] = "returned"]
            /\ UNCHANGED <<lpc, starts>>
    /\ UNCHANGED <<preemptive, clients, latest, profiler, rounds, cerr, nconn, dpc, dres,
                   ndisc, data, iter, res, closed_clients, closes, nlog, first, seen, twice, connAt,
                   propagated, codecVars>>

\* ---------------------------------------------------- disconnected(c) --
\* called by the adapter (the disconnection watch, or any other caller)
DiscCheck(c) ==
    /\ dpc[c] = "idle" /\ ndisc[c] < CallLimit
    /\ Turn(<<"disc", c>>)
    /\ IF already_disconnected(c)
       THEN /\ dres' = [dres EXCEPT ![c] = "noop"]
            /\ ndisc' = [ndisc EXCEPT ![c] = @ + 1]
            /\ dpc' = dpc
       ELSE /\ dpc' = [dpc EXCEPT ![c] = "remove"]
            /\ UNCHANGED <<dres, ndisc>>
    /\ UNCHANGED <<preemptive, clients, latest, profiler, rounds, cpc, cerr, cres, nconn,
                   lpc, data, iter, res, closed_clients, starts, closes, nlog, first, seen, twice,
                   connAt, propagated, codecVars>>

DiscRemove(c) ==
    /\ dpc[c] = "remove"
    /\ Turn(<<"disc", c>>)
    /\ dpc' = [dpc EXCEPT ![c] = "idle"]
    /\ ndisc' = [ndisc EXCEPT ![c] = @ + 1]
    /\ IF c \in clients
       THEN /\ Remove(c)
            /\ dres' = [dres EXCEPT ![c] = "removed"]
       ELSE /\ dres' = [dres EXCEPT ![c] = "KeyError"]
            /\ UNCHANGED <<clients, nlog, closes>>
    /\ UNCHANGED <<preemptive, latest, profiler, rounds, cpc, cerr, cres, nconn, lpc, data,
                   iter, res, closed_clients, starts, first, seen, twice, connAt, propagated, codecVars>>

\* -------------------------------------------------------- profiling() --
NoResults == [c \in Clients |-> "none"]
Visited(l) == {c \in Clients : res[l][c] # "none"}

\* The top of a round: `while self.clients:` then self.profiler.start() and
\* the yield, or self._log_profiler_stopped() and the generator's end.
TopOfRound(l) ==
    IF loop_continues
    THEN /\ rounds + Cardinality(Waiting) < MaxRounds
         /\ ProfilerStart
         /\ lpc' = [lpc EXCEPT ![l] = "wait"]
    ELSE /\ lpc' = [lpc EXCEPT ![l] = "done"]
         /\ profiler' = profiler

\* The backend begins to drive the generator that _start_profiling() set up.
LoopBegin(l) ==
    /\ lpc[l] = "scheduled"
    /\ Turn(<<"loop", l>>)
    /\ TopOfRound(l)
    /\ UNCHANGED <<preemptive, clients, latest, rounds, cpc, cerr, cres, nconn, dpc, dres,
                   ndisc, data, iter, res, closed_clients, starts, closes, nlog, first, seen, twice,
                   connAt, propagated, codecVars>>

\* The loop comes back to `while self.clients:` after a round.
LoopCheck(l) ==
    /\ lpc[l] = "check"
    /\ Turn(<<"loop", l>>)
    /\ TopOfRound(l)
    /\ UNCHANGED <<preemptive, clients, latest, rounds, cpc, cerr, cres, nconn, dpc, dres,
                   ndisc, data, iter, res, closed_clients, starts, closes, nlog, first, seen, twice,
                   connAt, propagated, codecVars>>

\* The backend resumes the generator after the interval: stop, pack_stats,
\* store _latest_data, clear, closed_clients = [], iter(self.clients).
LoopResume(l) ==
    /\ lpc[l] = "wait"
    /\ Turn(<<"loop", l>>)
    /\ ProfilerStop
    /\ rounds' = rounds + 1
    /\ data' = [data EXCEPT ![l] = pack_stats(rounds + 1, PICKLE_PROTOCOL)]
    /\ latest' = store_latest(pack_stats(rounds + 1, PICKLE_PROTOCOL))
    /\ closed_clients' = [closed_clients EXCEPT ![l] = << >>]
    /\ iter' = [iter EXCEPT ![l] = clients]
    /\ res' = [res EXCEPT ![l] = NoResults]
    /\ lpc' = [lpc EXCEPT ![l] = "send"]
    /\ UNCHANGED <<preemptive, clients, cpc, cerr, cres, nconn, dpc, dres, ndisc, starts,
                   closes, nlog, first, seen, twice, connAt, propagated, codecVars>>

\* One step of `for client in self.clients:` over the live set.  A set whose
\* size differs from the size at iter() raises RuntimeError; a set changed
\* without a change of size is iterated on, and a member added meanwhile is
\* visited or not.
LoopSend(l) ==
    /\ lpc[l] = "send"
    /\ Turn(<<"loop", l>>)
    /\ IF Cardinality(clients) # Cardinality(iter[l])
       THEN /\ lpc' = [lpc EXCEPT ![l] = "crashed"]
            /\ data' = [data EXCEPT ![l] = None]
            /\ iter' = [iter EXCEPT ![l] = {}]
            /\ res' = [res EXCEPT ![l] = NoResults]
            /\ closed_clients' = [closed_clients EXCEPT ![l] = << >>]
            /\ NoDelivery
       ELSE \/ \E c \in clients \ Visited(l) : \E err \in SendOutcomes :
                  /\ res' = [res EXCEPT ![l][c] = err]
                  /\ IF err = "ok" THEN Deliver(c, data[l]) ELSE NoDelivery
                  /\ closed_clients' = [closed_clients EXCEPT
                                          ![l] = closed_after(@, c, err)]
                  /\ UNCHANGED <<lpc, data, iter>>
            \/ /\ (clients \cap iter[l]) \subseteq Visited(l)
               /\ lpc' = [lpc EXCEPT ![l] = "reconcile"]
               /\ UNCHANGED <<data, iter, res, closed_clients, first, seen, twice>>
    /\ UNCHANGED <<preemptive, clients, latest, profiler, rounds, cpc, cerr, cres, nconn,
                   dpc, dres, ndisc, starts, closes, nlog, connAt, propagated, codecVars>>

\* `for client in closed_clients: self.disconnected(client)`: the membership
\* test of the next one, or the end of the round.
LoopReconcile(l) ==
    /\ lpc[l] = "reconcile"
    /\ Turn(<<"loop", l>>)
    /\ IF closed_clients[l] = << >>
       THEN /\ lpc' = [lpc EXCEPT ![l] = "check"]
            /\ data' = [data EXCEPT ![l] = None]
            /\ iter' = [iter EXCEPT ![l] = {}]
            /\ res' = [res EXCEPT ![l] = NoResults]
            /\ closed_clients' = closed_clients
       ELSE /\ IF already_disconnected(Head(closed_clients[l]))
               THEN /\ closed_clients' = [closed_clients EXCEPT ![l] = Tail(@)]
                    /\ lpc' = lpc
               ELSE /\ lpc' = [lpc EXCEPT ![l] = "remove"]
                    /\ closed_clients' = closed_clients
            /\ UNCHANGED <<data, iter, res>>
    /\ UNCHANGED <<preemptive, clients, latest, profiler, rounds, cpc, cerr, cres, nconn,
                   dpc, dres, ndisc, starts, closes, nlog, first, seen, twice, connAt, propagated,
                   codecVars>>

\* ... and its remove / log / _close; KeyError leaves the generator.
LoopRemove(l) ==
    /\ lpc[l] = "remove"
    /\ Turn(<<"loop", l>>)
    /\ IF Head(closed_clients[l]) \in clients
       THEN /\ Remove(Head(closed_clients[l]))
            /\ closed_clients' = [closed_clients EXCEPT ![l] = Tail(@)]
            /\ lpc' = [lpc EXCEPT ![l] = "reconcile"]
            /\ UNCHANGED <<data, iter, res>>
       ELSE /\ lpc' = [lpc EXCEPT ![l] = "crashed"]
            /\ data' = [data EXCEPT ![l] = None]
            /\ iter' = [iter EXCEPT ![l] = {}]
            /\ res' = [res EXCEPT ![l] = NoResults]
            /\ closed_clients' = [closed_clients EXCEPT ![l] = << >>]
            /\ UNCHANGED <<clients, nlog, closes>>
    /\ UNCHANGED <<preemptive, latest, profiler, rounds, cpc, cerr, cres, nconn, dpc, dres,
                   ndisc, starts, first, seen, twice, connAt, propagated, codecVars>>

\* ===================================================== specifications ==
ServerNext ==
    \/ \E c \in Clients : ConnAdd(c)
    \/ \E c \in Clients : ConnCatchUp(c)
    \/ \E c \in Clients : ConnGone(c)
    \/ \E c \in Clients : ConnRemove(c)
    \/ \E c \in Clients : ConnCheck(c)
    \/ \E c \in Clients : DiscCheck(c)
    \/ \E c \in Clients : DiscRemove(c)
    \/ \E l \in Loops : LoopBegin(l)
    \/ \E l \in Loops : LoopCheck(l)
    \/ \E l \in Loops : LoopResume(l)
    \/ \E l \in Loops : LoopSend(l)
    \/ \E l \in Loops : LoopReconcile(l)
    \/ \E l \in Loops : LoopRemove(l)

Init == ServerInit /\ CodecIdle /\ preemptive = TRUE
Next == ServerNext
Spec == Init /\ [][Next]_vars

InitSeq == ServerInit /\ CodecIdle /\ preemptive = FALSE
SpecSeq == InitSeq /\ [][Next]_vars

\* A handler that is in progress runs on, and the backend keeps driving the
\* generators: it begins them and resumes them after each interval.
Progress ==
    \/ \E c \in Clients : ConnCatchUp(c) \/ ConnGone(c) \/ ConnRemove(c)
                            \/ ConnCheck(c) \/ DiscRemove(c)
    \/ \E l \in Loops : LoopBegin(l) \/ LoopCheck(l) \/ LoopResume(l)
                          \/ LoopSend(l) \/ LoopReconcile(l) \/ LoopRemove(l)
SpecSeqFair == InitSeq /\ [][Next]_vars /\ WF_vars(Progress)

InitCodec ==
    /\ ServerInit /\ preemptive = FALSE
    /\ snapshot \in Snapshots /\ protocol \in Protocols
    /\ frame = None /\ wire = None /\ sock = None
    /\ rpc = "pack" /\ size = 0 /\ result = Bad
NextCodec == Pack \/ Transmit \/ RecvHeader \/ RecvPayload
SpecCodec == InitCodec /\ [][NextCodec]_vars

\* ============================================================= claims ==
\* No handler and no loop segment is in progress.
Quiescent == InFlight = {}

\* C1: in every reachable state at most one round loop started through
\* _start_profiling() is active for the server (stated for the runs in which
\* no handle is connected twice).
C1_SingleLoop ==
    (\A c \in Clients : nconn[c] <= 1) => Cardinality(ActiveLoops) <= 1

\* C2: once N >= 2 connected() calls for distinct clients, run concurrently
\* against an empty client set and a null latest frame, have all returned,
\* _start_profiling() has been invoked exactly once.
C2_ExactlyOneStart ==
    LET joined == {c \in Clients : nconn[c] >= 1}
    IN  ( /\ \A c \in Clients : cpc[c] = "idle" /\ nconn[c] <= 1
          /\ Cardinality(joined) >= 2
          /\ clients = joined
          /\ latest = None
          /\ ~propagated )
        => starts = 1

C4_PartialFailureIsolation ==
    [][ \A l \in Loops :
        /\ (lpc[l] = "send" /\ res'[l] # res[l])
           => /\ clients' = clients
              /\ \E c \in clients :
                   /\ res[l][c] = "none" /\ closes[c] = 0
                   /\ res'[l] = [res[l] EXCEPT ![c] = res'[l][c]]
        /\ (lpc[l] = "send" /\ lpc'[l] = "reconcile")
           => /\ clients = iter[l]
              /\ \A c \in iter[l] : res[l][c] # "none"
              /\ {closed_clients[l][i] : i \in 1..Len(closed_clients[l])}
                   = {c \in Clients : res[l][c] = "EPIPE"}
        /\ (lpc[l] = "reconcile" /\ lpc'[l] = "check")
           => \A c \in Clients :
                res[l][c] = "EPIPE" => (c \notin clients' /\ closes'[c] = 1) ]_vars

\* The pass is over: B failed with broken-pipe and has been removed, A was
\* served in the same pass.
C4_Witness ==
    \E l \in Loops : \E a, b \in Clients :
        /\ lpc[l] = "reconcile" /\ closed_clients[l] = << >>
        /\ res[l][b] = "EPIPE" /\ res[l][a] = "ok"
        /\ b \notin clients /\ a \in clients /\ closes[b] = 1

\* C5: a client that joined when the latest frame was the frame of round K
\* has that frame as its first delivery (its catch-up send did not fail).
C5_CatchUpFirst ==
    \A c \in Clients :
        (connAt[c] # None /\ first[c] # None /\ cerr[c] \in {"none", "ok"})
        => first[c] = connAt[c]

\* C6: every disconnected(c) call leaves c out of the client set and raises
\* nothing, and a call for a non-member changes neither the client set nor
\* the number of 'disconnected' log events nor the number of _close calls.
C6_DisconnectIdempotent ==
    [][ \A c \in Clients :
          (ndisc'[c] = ndisc[c] + 1)
          => /\ c \notin clients'
             /\ dres'[c] \in {"noop", "removed"}
             /\ (c \notin clients)
                => /\ dres'[c] = "noop"
                   /\ clients' = clients /\ nlog' = nlog /\ closes' = closes ]_vars

\* disconnected(c) was called twice: the first call removed c (nothing else
\* could have), the second was a no-op.
C6_Witness ==
    \E c \in Clients :
        /\ ndisc[c] = 2 /\ dpc[c] = "idle" /\ dres[c] = "noop"
        /\ closes[c] = 1 /\ nlog = 1 /\ rounds = 0 /\ cerr[c] = "none"

\* C7 as stated: while the profiler is started and not yet stopped the
\* client set is non-empty.
C7_RunsOnlyWhileAttached ==
    (profiler # << >> /\ Last(profiler) = "start") => clients # {}

\* C7 as amended: the profiler is started only when the client set is
\* non-empty at that moment; it then runs until the loop is resumed, also
\* when every client has left meanwhile.
C7_StartedOnlyWhenAttached ==
    [][ (profiler' # profiler /\ Last(profiler') = "start") => clients # {} ]_vars

\* The profiler is running and the last client has left.
C7_Witness ==
    /\ profiler # << >> /\ Last(profiler) = "start"
    /\ clients = {} /\ Waiting # {}

\* C8: a frame is a 4-byte big-endian length followed by exactly that many
\* payload bytes, and recv_stats on the stream that carries the whole frame
\* returns the snapshot that was packed.
C8_FrameRoundTrip ==
    /\ frame # None
       => /\ Len(frame) >= SIZE_STRUCT_BYTES
          /\ \A i \in 1..Len(frame) : frame[i] \in 0..255
          /\ ((frame[1] * 256 + frame[2]) * 256 + frame[3]) * 256 + frame[4]
               = Len(frame) - SIZE_STRUCT_BYTES
    /\ (rpc \in {"done", "closed", "unpickle_error"} /\ wire = frame)
       => (rpc = "done" /\ result.ok /\ result.value = snapshot /\ sock = None)

\* A two-byte integer packed with the text protocol went through the wire.
C8_Witness ==
    /\ rpc = "done" /\ wire = frame /\ snapshot >= 256 /\ protocol = 0
    /\ result.value = snapshot

\* C9: a broadcast send that failed with a transport error other than
\* broken-pipe has ended the round loop with that error.
C9_OtherErrorPropagates ==
    \A l \in Loops : (\E c \in Clients : res[l][c] = "OTHER") => lpc[l] = "crashed"

\* C10: a catch-up send that fails with broken-pipe or bad-descriptor makes
\* connected(c) return without raising and without _start_profiling(), c
\* removed and closed; a catch-up send that fails otherwise raises.
C10_CatchUpFailure ==
    [][ \A c \in Clients :
        /\ (cpc[c] = "catchup" /\ cerr'[c] \in {"EPIPE", "EBADF"})
           => (cpc'[c] = "gone" /\ cres'[c] # "raised" /\ propagated' = propagated)
        /\ (cpc[c] = "catchup" /\ cerr'[c] = "OTHER")
           => (cpc'[c] = "idle" /\ cres'[c] = "raised")
        /\ (cpc[c] \in {"gone", "remove"})
           => /\ cpc'[c] \in {"remove", "idle"}
              /\ starts' = starts /\ lpc' = lpc
              /\ (cpc'[c] = "idle")
                 => (cres'[c] = "returned" /\ c \notin clients' /\ closes'[c] = 1) ]_vars

\* connected(c) has returned after a bad-descriptor on the catch-up send.
C10_Witness ==
    \E c \in Clients :
        /\ cpc[c] = "idle" /\ cerr[c] = "EBADF" /\ cres[c] = "returned"
        /\ c \notin clients /\ closes[c] = 1

\* C11: the profiler is called in the order start, stop, result, clear, once
\* per round, and no round starts before the clear of the round before it
\* (stated for the runs in which no handle is connected twice).
C11_ProfilerCycle ==
    (\A c \in Clients : nconn[c] <= 1)
    => profiler \in {<< >>, <<"start">>, <<"start", "stop", "result", "clear">>}

\* C12: recv_stats on a stream that ends before the header or before the
\* announced payload is complete fails with the connection-closed error and
\* returns nothing; each recv that returns has taken exactly the bytes asked.
C12_ShortReadFails ==
    /\ (rpc \in {"done", "closed", "unpickle_error", "struct_error"} /\ wire # frame)
       => (rpc = "closed" /\ result = Bad)
    /\ rpc = "payload" => Len(wire) - Len(sock) = SIZE_STRUCT_BYTES
    /\ rpc \in {"done", "unpickle_error"}
       => Len(wire) - Len(sock) = SIZE_STRUCT_BYTES + size

\* The stream closed in the middle of the payload.
C12_Witness ==
    /\ rpc = "closed" /\ wire # frame /\ Len(wire) > SIZE_STRUCT_BYTES
    /\ size > Len(wire) - SIZE_STRUCT_BYTES /\ result = Bad

\* C13: a send pass works on the members it started with: whatever
\* connected() and disconnected() do between two of its sends, the pass
\* neither aborts nor sends to a client added meanwhile, and it ends when
\* the members it started with have been sent to.
C13_PassOverCopy ==
    [][ \A l \in Loops :
          lpc[l] = "send"
          => /\ lpc'[l] \in {"send", "reconcile"}
             /\ \A c \in Clients : res'[l][c] # res[l][c] => c \in iter[l]
             /\ lpc'[l] = "reconcile" => Visited(l) = iter[l] ]_vars

\* C14: disconnected(c) called by the disconnection watch never raises,
\* whatever another caller of disconnected(c) does in between its membership
\* test and its remove, and _close(c) is called at most once.
C14_UncoordinatedDisconnect ==
    \A c \in Clients : dres[c] # "KeyError" /\ closes[c] <= 1

\* C15: at the end of a round every client whose broadcast send failed with
\* bad-descriptor has been removed from the client set and closed.
C15_BadDescriptorRecovered ==
    [][ \A l \in Loops :
          (lpc[l] = "reconcile" /\ lpc'[l] = "check")
          => \A c \in Clients :
               res[l][c] = "EBADF" => (c \notin clients' /\ closes'[c] >= 1) ]_vars

\* C16: the last step of connected(c) calls _start_profiling() exactly when
\* this call made c the first member of an empty set; a call for a handle
\* that is connected already (nconn[c] > 1) schedules nothing.
C16_StartOnFirstClient ==
    [][ \A c \in Clients :
          (cpc[c] = "check" /\ cpc'[c] = "idle")
          => ((starts' = starts + 1) <=> (nconn[c] = 1 /\ clients = {c})) ]_vars

\* C17: if from some point on the client set stays empty, then from some
\* point on every round loop that was started has logged 'stopped' and left;
\* and a loop leaves only at its top-of-round check, on an empty client set.
C17_LoopTerminates ==
    /\ <>[](clients = {}) => <>[](\A l \in Loops : lpc[l] \in {"off", "done"})
    /\ [][ \A l \in Loops :
             (lpc'[l] = "done" /\ lpc[l] # "done")
             => (lpc[l] \in {"scheduled", "check"} /\ clients = {}) ]_vars

\* A loop that ran a round has left after the last client disconnected.
C17_Witness ==
    /\ clients = {} /\ rounds >= 1
    /\ \E l \in Loops : lpc[l] = "done"
    /\ \A l \in Loops : lpc[l] \in {"off", "done"}
    /\ \E c \in Clients : closes[c] = 1

\* C18: the latest frame is null until the first round has produced a frame
\* and is never null afterwards; it changes only when a resumed loop stores
\* the frame of its round, which is then the frame that loop is about to
\* broadcast and has not yet sent to anyone.
C18_LatestOnlyReplaced ==
    /\ [](rounds = 0 => latest = None)
    /\ [][ /\ latest # None => latest' # None
           /\ \A l \in Loops :
                (lpc[l] = "wait" /\ lpc'[l] = "send")
                => /\ latest' = data'[l] /\ latest' # None
                   /\ latest' = pack_stats(rounds', PICKLE_PROTOCOL)
                   /\ Visited(l)' = {}
           /\ latest' # latest
              => \E l \in Loops : lpc[l] = "wait" /\ lpc'[l] = "send" ]_vars

\* The frame of the last round outlives the last client and the loop.
C18_Witness ==
    /\ latest # None /\ rounds >= 1
    /\ clients = {} /\ ActiveLoops = {}
    /\ \E l \in Loops : lpc[l] = "done"

\* C19: the profiler is running only while some loop is suspended at its
\* yield; a loop leaves its yield only by stopping and clearing the profiler
\* and storing the frame of the round, also when no client is left, and it
\* leaves for good only from its top-of-round check.
C19_ExitLeavesProfilerStopped ==
    /\ [](Waiting = {} => (profiler = << >> \/ Last(profiler) = "clear"))
    /\ [][ \A l \in Loops :
             /\ (lpc[l] = "wait" /\ lpc'[l] # "wait")
                => /\ lpc'[l] = "send"
                   /\ profiler' = profiler \o <<"stop", "result", "clear">>
                   /\ rounds' = rounds + 1 /\ latest' # None /\ iter'[l] = clients
             /\ (lpc'[l] = "done" /\ lpc[l] # "done")
                => lpc[l] \in {"scheduled", "check"} ]_vars

\* The only client left during the interval wait; the round was completed
\* with a broadcast to nobody, and the loop has left with the profiler
\* stopped and cleared.
C19_Witness ==
    /\ \E l \in Loops : lpc[l] = "done"
    /\ Waiting = {} /\ profiler = <<"start", "stop", "result", "clear">>
    /\ rounds = 1 /\ latest # None /\ clients = {}
    /\ \A c \in Clients : first[c] = None
    /\ \E c \in Clients : closes[c] = 1

\* C20: no client is sent the frame of one round more than once, also when
\* connected(c) and the broadcast pass of that round overlap (stated for the
\* runs in which no handle is connected twice).
C20_NoDuplicateFrame ==
    (\A c \in Clients : nconn[c] <= 1) => twice = {}

=============================================================================
